---- MODULE Spec2Model ----
(***************************************************************************)
(* State model of the LexOS frontend state layer:                          *)
(*   - the chat store (store/chatStore.ts) and the send-turn protocol of   *)
(*     ChatContainer (handleSendMessage),                                  *)
(*   - the agent store (agentStore) with createCrew / runCrew and the      *)
(*     AgentManager controls that invoke them,                             *)
(*   - the push-channel client (WebSocketClient of lib/socket) with the    *)
(*     socket.io connection it configures.                                 *)
(* Each store has two specifications: one driven by the UI components that *)
(* call it, one driven by direct calls of the store's public actions.      *)
(***************************************************************************)
EXTENDS Integers, Sequences, FiniteSets, TLC

(***************************************************************************)
(* Bounds of the model                                                     *)
(***************************************************************************)
MaxUuid == 5
MaxStoreUuid == 3
MaxClock == 2
MaxTurns == 2
MaxMounts == 2
MaxCrewCreates == 2
MaxCrewRuns == 2
MaxFetches == 1
MaxAgents == 2
MaxTasks == 1
MaxLoads == 1
MaxOverlap == 2
MaxHistory == 1
MaxSends == 2
MaxPushes == 2
MaxListeners == 2
MaxRegistered == 2
MaxConnects == 2

(***************************************************************************)
(* Values                                                                  *)
(***************************************************************************)
NULL == 0
Sentinel == "..."
FailureNotice == "Sorry, there was an error processing your request. Please try again."
NoProvenance == "undefined"
Prompts == {"hello"}
Roles == {"user", "assistant", "system"}
CallRoles == {"user", "system"}
EditContents == {"c1", "c2"}
CallContents == {"edited"}
StaleId == 99

Undefined == "undefined"
UndefinedNumber == 0
NoError == "null"
Statuses == {"idle", "running", "completed", "failed"}
BackendIds == {"abc123", "def456"}
LocalIds == <<"uuid-1", "uuid-2", "uuid-3">>
TemplatesResponse == <<"researcher", "writer">>
\* the drafts AgentManager.handleCreateCrew submits
Drafts ==
    {[name |-> "crew", agents |-> <<"agent-1">>,
      tasks |-> <<[description |-> "task", agentId |-> "agent-1",
                   expectedOutput |-> "Comprehensive analysis"]>>,
      processType |-> "sequential"]}
\* identifiers createAgent's uuidv4() returns, templates of the agent form
AgentIds == <<"agent-1", "agent-2", "agent-3">>
AgentTemplates == {"writer"}
\* AgentManager's newCrew state as useState initialises and resets it
EmptyCrew ==
    [name |-> "", agents |-> <<>>, tasks |-> <<>>, processType |-> "sequential"]
\* result and duration of the backend's response to the k-th crew run
RunResult(k) == <<"result-1", "result-2", "result-3">>[k]
RunDuration(k) == <<11, 12, 13>>[k]
\* patches passed to updateCrew
CrewUpdates ==
    {[status |-> st] : st \in Statuses}

\* text and provenance (model, provider, tokens, cost) of the backend's
\* response to the k-th chat request
ResponseText(k) == <<"r1", "r2", "r3", "r4">>[k]
ResponseProvenance(k) == <<"p1", "p2", "p3", "p4">>[k]

\* responses of GET /memory/conversation/:id: turn i carries its two texts
\* and a metadata object whose timestamp may be missing; in a malformed turn
\* the metadata object itself is missing
HistoryTexts == <<[user |-> "a", assistant |-> "b"],
                  [user |-> "c", assistant |-> "d"],
                  [user |-> "e", assistant |-> "f"]>>
HistoryItems(i) ==
    {[user |-> HistoryTexts[i].user, assistant |-> HistoryTexts[i].assistant,
      metadata |-> [timestamp |-> ts, provenance |-> "p1"]] :
        ts \in {UndefinedNumber, 10 * i}}
    \cup {[user |-> HistoryTexts[i].user,
           assistant |-> HistoryTexts[i].assistant]}
Histories ==
    UNION {{h \in [1..n -> UNION {HistoryItems(i) : i \in 1..n}] :
               \A i \in 1..n : h[i] \in HistoryItems(i)} : n \in 0..MaxHistory}

\* io(..., { reconnection: true, reconnectionAttempts: 5 })
ReconnectionAttempts == 5
\* the functions callers pass to onConnectionChange
Listeners == 1..MaxListeners
\* what a connection-state listener was last called with
Never == "never"
ToldTrue == "true"
ToldFalse == "false"

VARIABLES
    conversations,          \* ChatState.conversations
    activeConversationId,   \* ChatState.activeConversationId (NULL = null)
    now,                    \* Date.now()
    nextUuid,               \* next value uuidv4() returns
    turns,                  \* handleSendMessage invocations and where they stand
    chatIsLoading,          \* ChatContainer's isLoading state
    chatEpoch,              \* which mounted instance of ChatContainer is live
    crews,                  \* AgentState.crews
    agentIsLoading,         \* AgentState.isLoading
    agentError,             \* AgentState.error (NoError = null)
    availableTemplates,     \* AgentState.availableTemplates / availableTools
    crewCreates,            \* createCrew invocations suspended at their await
    createsIssued,          \* number of createCrew invocations so far
    crewRuns,               \* runCrew invocations suspended at their await
    runsIssued,             \* number of runCrew invocations so far
    fetches,                \* fetchTemplates invocations in flight
    escaped,                \* the store actions that have rejected the
                            \* promise they returned to their caller
    agents,                 \* AgentState.agents
    agentsIssued,           \* number of createAgent invocations so far
    newCrew,                \* AgentManager's newCrew form state
    showNewCrewForm,        \* AgentManager's showNewCrewForm state
    storeIsLoading,         \* ChatState.isLoading
    storeError,             \* ChatState.error (NoError = null)
    loads,                  \* loadConversationHistory invocations suspended
                            \* at their await
    loadsIssued,            \* number of loadConversationHistory invocations
    channel,                \* WebSocketClient.socket: "none" = null, else the
                            \* state of the socket.io connection it holds
    attempts,               \* reconnection attempts the connection's manager
                            \* has started since it was last open
    connectCalls,           \* number of connect() calls so far
    disconnectCalls,        \* number of disconnect() calls so far
    sockets,                \* connections io() has created that
                            \* socket.disconnect() has not closed
    messageHandlers,        \* keys of WebSocketClient.messageHandlers
    deliveries,             \* per message id issued by sendMessage, how often
                            \* its onResponse has been invoked
    sendBuffer,             \* emitted while not connected, not yet transmitted
    sent,                   \* message ids transmitted to the server
    connectionHandlers,     \* WebSocketClient.connectionHandlers
    told,                   \* per listener, the value it was last called
                            \* with since it was registered
    notified                \* per listener, how often the latest
                            \* notifyConnectionHandlers invoked it

chatVars == <<conversations, activeConversationId, now, nextUuid, turns,
              chatIsLoading, chatEpoch>>

chatState == <<conversations, activeConversationId, nextUuid, turns,
               chatIsLoading, chatEpoch>>

agentVars == <<crews, agentIsLoading, agentError, availableTemplates,
               crewCreates, createsIssued, crewRuns, runsIssued, fetches,
               escaped>>

managerVars == <<agents, agentsIssued, newCrew, showNewCrewForm>>

historyVars == <<storeIsLoading, storeError, loads, loadsIssued>>

\* what the message actions of the chat store and the crew actions of the
\* agent store leave alone
socketVars == <<channel, attempts, connectCalls, disconnectCalls, sockets,
                messageHandlers, deliveries,
                sendBuffer, sent, connectionHandlers, told, notified>>

outsideAgent == <<chatState, historyVars, socketVars>>
notAgent == <<outsideAgent, managerVars>>
outsideChat == <<agentVars, managerVars, socketVars>>
notChat == <<outsideChat, historyVars>>
outsideSocket == <<chatVars, historyVars, agentVars, managerVars>>

vars == <<chatVars, historyVars, agentVars, managerVars, socketVars>>

(***************************************************************************)
(* Helpers on sequences                                                    *)
(***************************************************************************)
RECURSIVE SelectSeqBy(_, _)

ConvIds(convs) == {convs[i].id : i \in DOMAIN convs}
MsgIds(msgs) == {msgs[i].id : i \in DOMAIN msgs}
SelectSeqBy(s, keep) ==
    IF s = <<>> THEN <<>>
    ELSE IF Head(s).id \in keep
         THEN <<Head(s)>> \o SelectSeqBy(Tail(s), keep)
         ELSE SelectSeqBy(Tail(s), keep)

(***************************************************************************)
(* chatStore.ts: the store's actions as functions of the state             *)
(***************************************************************************)
Conversation(id, t) ==
    [id |-> id, messages |-> <<>>, createdAt |-> t, updatedAt |-> t]

Message(id, role, content, t) ==
    [id |-> id, role |-> role, content |-> content, timestamp |-> t,
     provenance |-> NoProvenance]

\* variant that appends the new conversation
createConversation_Appends(convs, id, t) ==
    [conversations |-> Append(convs, Conversation(id, t)),
     activeConversationId |-> id]

\* createConversation: prepend, make active
createConversation(convs, id, t) ==
    [conversations |-> <<Conversation(id, t)>> \o convs,
     activeConversationId |-> id]

\* variant that puts the new message first
addMessage_Prepends(convs, active, message, t) ==
    IF active = NULL THEN convs
    ELSE [i \in DOMAIN convs |->
            IF convs[i].id = active
            THEN [convs[i] EXCEPT !.messages = <<message>> \o @,
                                  !.updatedAt = t]
            ELSE convs[i]]

\* addMessage: append to the active conversation, bump updatedAt
addMessage(convs, active, message, t) ==
    IF active = NULL THEN convs
    ELSE [i \in DOMAIN convs |->
            IF convs[i].id = active
            THEN [convs[i] EXCEPT !.messages = Append(@, message),
                                  !.updatedAt = t]
            ELSE convs[i]]

\* variant that writes into the last message instead of the one named by id
updateMessage_LastMessage(convs, active, id, content, t) ==
    IF active = NULL THEN convs
    ELSE [i \in DOMAIN convs |->
            IF convs[i].id = active
            THEN [convs[i] EXCEPT
                    !.messages = [j \in DOMAIN @ |->
                                    IF j = Len(@)
                                    THEN [@[j] EXCEPT !.content = content]
                                    ELSE @[j]],
                    !.updatedAt = t]
            ELSE convs[i]]

\* variant that adds the new content as a further message with the same id
updateMessage_Duplicates(convs, active, id, content, t) ==
    IF active = NULL THEN convs
    ELSE [i \in DOMAIN convs |->
            IF convs[i].id = active /\ id \in MsgIds(convs[i].messages)
            THEN [convs[i] EXCEPT
                    !.messages = Append(@, Message(id, "assistant", content, t)),
                    !.updatedAt = t]
            ELSE convs[i]]

\* updateMessage: replace content of message id in the active conversation
updateMessage(convs, active, id, content, t) ==
    IF active = NULL THEN convs
    ELSE [i \in DOMAIN convs |->
            IF convs[i].id = active
            THEN [convs[i] EXCEPT
                    !.messages = [j \in DOMAIN @ |->
                                    IF @[j].id = id
                                    THEN [@[j] EXCEPT !.content = content]
                                    ELSE @[j]],
                    !.updatedAt = t]
            ELSE convs[i]]

\* deleteMessage: filter message id out of the active conversation
deleteMessage(convs, active, id, t) ==
    IF active = NULL THEN convs
    ELSE [i \in DOMAIN convs |->
            IF convs[i].id = active
            THEN [convs[i] EXCEPT
                    !.messages = SelectSeqBy(@, MsgIds(@) \ {id}),
                    !.updatedAt = t]
            ELSE convs[i]]

\* variant that never re-selects
deleteConversation_KeepsSelection(convs, active, id) ==
    [conversations |-> SelectSeqBy(convs, ConvIds(convs) \ {id}),
     activeConversationId |-> active]

\* variant that re-selects from the list as it was before the deletion
deleteConversation_StaleList(convs, active, id) ==
    LET updatedConversations == SelectSeqBy(convs, ConvIds(convs) \ {id})
        newActiveId ==
            IF active = id
            THEN IF Len(convs) > 0 THEN convs[1].id ELSE NULL
            ELSE active
    IN [conversations |-> updatedConversations,
        activeConversationId |-> newActiveId]

\* deleteConversation: filter, re-select when the active one was deleted
deleteConversation(convs, active, id) ==
    LET updatedConversations == SelectSeqBy(convs, ConvIds(convs) \ {id})
        newActiveId ==
            IF active = id
            THEN IF Len(updatedConversations) > 0
                 THEN updatedConversations[1].id
                 ELSE NULL
            ELSE active
    IN [conversations |-> updatedConversations,
        activeConversationId |-> newActiveId]

(***************************************************************************)
(* Initial state                                                           *)
(***************************************************************************)
ChatInit ==
    /\ conversations = <<>>
    /\ activeConversationId = NULL
    /\ now = 1
    /\ nextUuid = 1
    /\ turns = <<>>
    /\ chatIsLoading = FALSE
    /\ chatEpoch = 1

AgentInit ==
    /\ crews = <<>>
    /\ agentIsLoading = FALSE
    /\ agentError = NoError
    /\ availableTemplates = <<>>
    /\ crewCreates = {}
    /\ createsIssued = 0
    /\ crewRuns = {}
    /\ runsIssued = 0
    /\ fetches = 0
    /\ escaped = {}

ManagerInit ==
    /\ agents = <<>>
    /\ agentsIssued = 0
    /\ newCrew = EmptyCrew
    /\ showNewCrewForm = FALSE

HistoryInit ==
    /\ storeIsLoading = FALSE
    /\ storeError = NoError
    /\ loads = {}
    /\ loadsIssued = 0

SocketInit ==
    /\ channel = "none"
    /\ attempts = 0
    /\ connectCalls = 0
    /\ disconnectCalls = 0
    /\ sockets = 0
    /\ messageHandlers = {}
    /\ deliveries = <<>>
    /\ sendBuffer = {}
    /\ sent = {}
    /\ connectionHandlers = <<>>
    /\ told = [l \in Listeners |-> Never]
    /\ notified = [l \in Listeners |-> 0]

Init == ChatInit /\ HistoryInit /\ AgentInit /\ ManagerInit /\ SocketInit

\* Date.now() advances between handlers
Tick ==
    /\ now < MaxClock
    /\ now' = now + 1
    /\ UNCHANGED <<conversations, activeConversationId, nextUuid, turns,
                   chatIsLoading, chatEpoch>>
    /\ UNCHANGED notChat

(***************************************************************************)
(* UI-driven chat: Sidebar, Header and ChatContainer                       *)
(***************************************************************************)
\* Sidebar.handleNewChat: createConversation + setActiveConversation(newId)
handleNewChat ==
    /\ nextUuid <= MaxUuid
    /\ LET r == createConversation(conversations, nextUuid, now)
       IN /\ conversations' = r.conversations
          /\ activeConversationId' = r.activeConversationId
    /\ nextUuid' = nextUuid + 1
    /\ UNCHANGED <<now, turns, chatIsLoading, chatEpoch>>
    /\ UNCHANGED notChat

\* Sidebar: click on a listed conversation
SelectConversation ==
    /\ \E i \in DOMAIN conversations :
          activeConversationId' = conversations[i].id
    /\ UNCHANGED <<conversations, now, nextUuid, turns, chatIsLoading,
                   chatEpoch>>
    /\ UNCHANGED notChat

\* Header.handleDelete: deleteConversation(activeConversationId)
handleDelete ==
    /\ activeConversationId # NULL
    /\ LET r == deleteConversation(conversations, activeConversationId,
                                   activeConversationId)
       IN /\ conversations' = r.conversations
          /\ activeConversationId' = r.activeConversationId
    /\ UNCHANGED <<now, nextUuid, turns, chatIsLoading, chatEpoch>>
    /\ UNCHANGED notChat

\* ChatContainer effect: create a conversation when none exists, select the
\* first one when none is active
EnsureConversation ==
    /\ \/ /\ Len(conversations) = 0
          /\ nextUuid <= MaxUuid
          /\ LET r == createConversation(conversations, nextUuid, now)
             IN /\ conversations' = r.conversations
                /\ activeConversationId' = r.activeConversationId
          /\ nextUuid' = nextUuid + 1
       \/ /\ Len(conversations) # 0
          /\ activeConversationId = NULL
          /\ activeConversationId' = conversations[1].id
          /\ UNCHANGED <<conversations, nextUuid>>
    /\ UNCHANGED <<now, turns, chatIsLoading, chatEpoch>>
    /\ UNCHANGED notChat

\* App.renderActiveView: leaving the chat view and coming back mounts a new
\* ChatContainer, whose isLoading starts false
Remount ==
    /\ chatEpoch < MaxMounts
    /\ chatEpoch' = chatEpoch + 1
    /\ chatIsLoading' = FALSE
    /\ UNCHANGED <<conversations, activeConversationId, now, nextUuid, turns>>
    /\ UNCHANGED notChat

\* ChatInput.handleSubmit + ChatContainer.handleSendMessage up to the await
handleSendMessage ==
    /\ ~chatIsLoading
    /\ activeConversationId # NULL
    /\ Len(turns) < MaxTurns
    /\ nextUuid + 1 <= MaxUuid
    /\ \E content \in Prompts :
        LET userMessage == Message(nextUuid, "user", content, now)
            assistantMessageId == nextUuid + 1
            assistantMessage ==
                Message(assistantMessageId, "assistant", Sentinel, now)
            c1 == addMessage(conversations, activeConversationId,
                             userMessage, now)
            c2 == addMessage(c1, activeConversationId, assistantMessage, now)
        IN /\ conversations' = c2
           /\ turns' = Append(turns,
                  [userMessageId |-> userMessage.id,
                   assistantMessageId |-> assistantMessageId,
                   conversation_id |-> activeConversationId,
                   epoch |-> chatEpoch,
                   state |-> "pending"])
    /\ nextUuid' = nextUuid + 2
    /\ chatIsLoading' = TRUE
    /\ UNCHANGED <<activeConversationId, now, chatEpoch>>
    /\ UNCHANGED notChat

\* setIsLoading(false) in the finally block reaches the instance that sent
FinallyIsLoading(k) ==
    chatIsLoading' = IF turns[k].epoch = chatEpoch THEN FALSE
                     ELSE chatIsLoading

\* apiClient.chat.send resolved: updateMessage(assistantMessageId, text)
ChatResolve(k) ==
    /\ k \in DOMAIN turns
    /\ turns[k].state = "pending"
    /\ conversations' = updateMessage(conversations, activeConversationId,
                            turns[k].assistantMessageId, ResponseText(k), now)
    /\ turns' = [turns EXCEPT ![k].state = "resolved"]
    /\ FinallyIsLoading(k)
    /\ UNCHANGED <<activeConversationId, now, nextUuid, chatEpoch>>
    /\ UNCHANGED notChat

\* apiClient.chat.send rejected: updateMessage(assistantMessageId, notice)
ChatReject(k) ==
    /\ k \in DOMAIN turns
    /\ turns[k].state = "pending"
    /\ conversations' = updateMessage(conversations, activeConversationId,
                            turns[k].assistantMessageId, FailureNotice, now)
    /\ turns' = [turns EXCEPT ![k].state = "rejected"]
    /\ FinallyIsLoading(k)
    /\ UNCHANGED <<activeConversationId, now, nextUuid, chatEpoch>>
    /\ UNCHANGED notChat

ChatNext ==
    \/ Tick
    \/ handleNewChat
    \/ SelectConversation
    \/ handleDelete
    \/ EnsureConversation
    \/ Remount
    \/ handleSendMessage
    \/ \E k \in 1..MaxTurns : ChatResolve(k)
    \/ \E k \in 1..MaxTurns : ChatReject(k)

SpecChat == Init /\ [][ChatNext]_vars

(***************************************************************************)
(* Direct calls of the chat store's actions (any client of useChatStore)   *)
(***************************************************************************)
\* identifiers a caller can name: those of the listed conversations, or of
\* the messages of the active one, and StaleId for any identifier that is
\* not (or no longer) there
CallConvIds == ConvIds(conversations) \cup {StaleId}
CallMsgIds ==
    UNION {MsgIds(conversations[i].messages) :
             i \in {x \in DOMAIN conversations :
                       conversations[x].id = activeConversationId}}
       \cup {StaleId}

createConversationCall ==
    /\ nextUuid <= MaxStoreUuid
    /\ LET r == createConversation(conversations, nextUuid, now)
       IN /\ conversations' = r.conversations
          /\ activeConversationId' = r.activeConversationId
    /\ nextUuid' = nextUuid + 1
    /\ UNCHANGED <<now, turns, chatIsLoading, chatEpoch>>
    /\ UNCHANGED notChat

\* setActiveConversation(id): no check that id exists; StaleId stands for
\* any identifier that names no conversation
setActiveConversation ==
    /\ \E id \in CallConvIds : activeConversationId' = id
    /\ UNCHANGED <<conversations, now, nextUuid, turns, chatIsLoading,
                   chatEpoch>>
    /\ UNCHANGED notChat

addMessageCall ==
    /\ nextUuid <= MaxStoreUuid
    /\ \E role \in CallRoles, content \in Prompts :
          conversations' = addMessage(conversations, activeConversationId,
                               Message(nextUuid, role, content, now), now)
    /\ nextUuid' = nextUuid + 1
    /\ UNCHANGED <<activeConversationId, now, turns, chatIsLoading, chatEpoch>>
    /\ UNCHANGED notChat

updateMessageCall ==
    /\ \E id \in CallMsgIds, content \in CallContents :
          conversations' = updateMessage(conversations, activeConversationId,
                                         id, content, now)
    /\ UNCHANGED <<activeConversationId, now, nextUuid, turns, chatIsLoading,
                   chatEpoch>>
    /\ UNCHANGED notChat

deleteMessageCall ==
    /\ \E id \in CallMsgIds :
          conversations' = deleteMessage(conversations, activeConversationId,
                                         id, now)
    /\ UNCHANGED <<activeConversationId, now, nextUuid, turns, chatIsLoading,
                   chatEpoch>>
    /\ UNCHANGED notChat

deleteConversationCall ==
    /\ \E id \in CallConvIds :
          LET r == deleteConversation(conversations, activeConversationId, id)
          IN /\ conversations' = r.conversations
             /\ activeConversationId' = r.activeConversationId
    /\ UNCHANGED <<now, nextUuid, turns, chatIsLoading, chatEpoch>>
    /\ UNCHANGED notChat

clearConversations ==
    /\ conversations' = <<>>
    /\ activeConversationId' = NULL
    /\ UNCHANGED <<now, nextUuid, turns, chatIsLoading, chatEpoch>>
    /\ UNCHANGED notChat

StoreNext ==
    \/ Tick
    \/ createConversationCall
    \/ setActiveConversation
    \/ addMessageCall
    \/ updateMessageCall
    \/ deleteMessageCall
    \/ deleteConversationCall
    \/ clearConversations

SpecStore == Init /\ [][StoreNext]_vars

\* the same calls with setActiveConversation given listed conversations only
SelectionNext ==
    \/ Tick
    \/ createConversationCall
    \/ SelectConversation
    \/ addMessageCall
    \/ updateMessageCall
    \/ deleteMessageCall
    \/ deleteConversationCall
    \/ clearConversations

SpecSelection == Init /\ [][SelectionNext]_vars

(***************************************************************************)
(* chatStore.ts: loadConversationHistory                                   *)
(***************************************************************************)
RECURSIVE ClockReads(_, _)

\* the values the clock can show at k successive points from time t on
ClockReads(k, t) ==
    IF k = 0 THEN {<<>>}
    ELSE UNION {{<<u>> \o r : r \in ClockReads(k - 1, u)} : u \in t..MaxClock}

\* `history-${index}-${Date.now()}` and
\* `history-${index}-assistant-${Date.now()}`, as numbers apart from the
\* uuids
HistoryId(index, assistant, t) ==
    1000 + 100 * index + (IF assistant THEN 50 ELSE 0) + t

\* reading item.metadata.timestamp throws when metadata is missing
Convertible(history) ==
    \A i \in DOMAIN history : "metadata" \in DOMAIN history[i]

\* item.metadata.timestamp || Date.now()
TimestampOr(item, t) ==
    IF item.metadata.timestamp # UndefinedNumber
    THEN item.metadata.timestamp
    ELSE t

\* history.map(...).flatMap(...): the first pass builds the user messages,
\* the second pass the assistant messages, every message taking Date.now()
\* for its id and, when the turn has no timestamp, for its timestamp; the
\* clock is reads[1] during the first pass and reads[2] during the second
historyMessages(history, reads) ==
    [k \in 1..(2 * Len(history)) |->
        LET i == (k + 1) \div 2
        IN  IF k % 2 = 1
            THEN [id |-> HistoryId(i - 1, FALSE, reads[1]),
                  role |-> "user",
                  content |-> history[i].user,
                  timestamp |-> TimestampOr(history[i], reads[1]),
                  provenance |-> NoProvenance]
            ELSE [id |-> HistoryId(i - 1, TRUE, reads[2]),
                  role |-> "assistant",
                  content |-> history[i].assistant,
                  timestamp |-> TimestampOr(history[i], reads[2]) + 1,
                  provenance |-> history[i].metadata.provenance]]

\* the set after the conversion: messages replaced, updatedAt: Date.now()
loadSucceeded(convs, conversationId, messages, t) ==
    [i \in DOMAIN convs |->
        IF convs[i].id = conversationId
        THEN [convs[i] EXCEPT !.messages = messages, !.updatedAt = t]
        ELSE convs[i]]

\* variant of the catch branch that empties the conversation being loaded
loadFailed_ClearsMessages(convs, conversationId) ==
    [i \in DOMAIN convs |->
        IF convs[i].id = conversationId
        THEN [convs[i] EXCEPT !.messages = <<>>]
        ELSE convs[i]]

\* the catch branch: set({ error, isLoading }) leaves conversations alone
loadFailed(convs, conversationId) ==
    convs

\* loadConversationHistory up to `await apiClient.memory.getConversation`
loadConversationHistoryStart(conversationId) ==
    /\ storeIsLoading' = TRUE
    /\ storeError' = NoError
    /\ loadsIssued' = loadsIssued + 1
    /\ loads' = loads \cup
          {[n |-> loadsIssued + 1, conversationId |-> conversationId]}
    /\ UNCHANGED chatVars
    /\ UNCHANGED outsideChat

\* after the await, the request having succeeded with response.data.history
LoadResolve(call, history) ==
    /\ call \in loads
    /\ loads' = loads \ {call}
    /\ storeIsLoading' = FALSE
    /\ IF Convertible(history)
       THEN \E reads \in ClockReads(3, now) :
               LET t == reads[3]
               IN  /\ conversations' =
                         loadSucceeded(conversations, call.conversationId,
                                       historyMessages(history, reads), t)
                   /\ now' = t
                   /\ UNCHANGED storeError
       ELSE /\ conversations' = loadFailed(conversations, call.conversationId)
            /\ storeError' = "Failed to load conversation history"
            /\ UNCHANGED now
    /\ UNCHANGED <<activeConversationId, nextUuid, turns, chatIsLoading,
                   chatEpoch, loadsIssued>>
    /\ UNCHANGED outsideChat

\* after the await, the request having failed
LoadReject(call) ==
    /\ call \in loads
    /\ loads' = loads \ {call}
    /\ storeIsLoading' = FALSE
    /\ conversations' = loadFailed(conversations, call.conversationId)
    /\ storeError' = "Failed to load conversation history"
    /\ UNCHANGED <<activeConversationId, now, nextUuid, turns, chatIsLoading,
                   chatEpoch, loadsIssued>>
    /\ UNCHANGED outsideChat

loadConversationHistoryCall ==
    /\ loadsIssued < MaxLoads
    /\ \E conversationId \in CallConvIds :
          loadConversationHistoryStart(conversationId)

LoadSettle ==
    \/ \E call \in loads, history \in Histories : LoadResolve(call, history)
    \/ \E call \in loads : LoadReject(call)

HistoryNext ==
    \/ createConversationCall
    \/ addMessageCall
    \/ loadConversationHistoryCall
    \/ LoadSettle

SpecHistory == Init /\ [][HistoryNext]_vars

\* loadConversationHistory called for listed conversations without awaiting
\* the calls made before
loadConversationHistoryOverlapping ==
    /\ loadsIssued < MaxOverlap
    /\ \E conversationId \in ConvIds(conversations) :
          loadConversationHistoryStart(conversationId)

LoadsNext ==
    \/ createConversationCall
    \/ loadConversationHistoryOverlapping
    \/ LoadSettle

SpecLoads == Init /\ [][LoadsNext]_vars

(***************************************************************************)
(* agentStore: the crew part of the store's actions as functions of state  *)
(***************************************************************************)
\* createCrew: the local Crew record built before the request is sent
\* (createdAt, which nothing reads or rewrites, is left out)
Crew(crewData, id, t) ==
    [id |-> id, name |-> crewData.name, agents |-> crewData.agents,
     tasks |-> crewData.tasks, processType |-> crewData.processType,
     status |-> "idle", result |-> Undefined,
     completedAt |-> UndefinedNumber, duration |-> UndefinedNumber,
     updatedAt |-> t]

\* updateCrew: { ...crew, ...updates, updatedAt }
updateCrew(cs, id, updates, t) ==
    [i \in DOMAIN cs |->
        IF cs[i].id = id
        THEN [f \in DOMAIN cs[i] |->
                IF f = "updatedAt" THEN t
                ELSE IF f \in DOMAIN updates THEN updates[f]
                ELSE cs[i][f]]
        ELSE cs[i]]

\* deleteCrew: filter
deleteCrew(cs, id) ==
    SelectSeqBy(cs, {cs[i].id : i \in DOMAIN cs} \ {id})

\* Array.prototype.findIndex(x => x === v): zero-based position of the first
\* occurrence, -1 when there is none
findIndex(list, v) ==
    IF \E i \in DOMAIN list : list[i] = v
    THEN (CHOOSE i \in DOMAIN list :
             /\ list[i] = v
             /\ \A j \in 1..(i - 1) : list[j] # v) - 1
    ELSE -1

\* get().agents.find(a => a.id === agentId)?.template || 'researcher'
templateOf(as, agentId) ==
    IF \E i \in DOMAIN as : as[i].id = agentId
    THEN as[1 + findIndex([i \in DOMAIN as |-> as[i].id], agentId)].template
    ELSE "researcher"

\* createCrew: the request body sent to apiClient.crew.create
apiCrewData(crew, as) ==
    [crew_name |-> crew.name,
     agent_templates |->
        [i \in DOMAIN crew.agents |-> templateOf(as, crew.agents[i])],
     tasks |->
        [i \in DOMAIN crew.tasks |->
            [description |-> crew.tasks[i].description,
             agent_index |-> findIndex(crew.agents, crew.tasks[i].agentId),
             expected_output |-> crew.tasks[i].expectedOutput]],
     process_type |-> crew.processType]

\* createCrew, after the await: crew.id = apiCrewId; crews: [...crews, crew]
createCrewSucceeded(cs, crew, apiCrewId) ==
    Append(cs, [crew EXCEPT !.id = apiCrewId])

\* variant of the catch branch that keeps the draft's crew in the list
createCrewFailed_KeepsDraft(cs, crew) ==
    Append(cs, crew)

\* createCrew, catch branch: set({ error, isLoading }) leaves crews alone
createCrewFailed(cs, crew) ==
    cs

\* result, completedAt and duration of every listed crew, as runCrew finds
\* them when it is invoked
CrewOutcomes(cs) ==
    [i \in DOMAIN cs |-> <<cs[i].result, cs[i].completedAt, cs[i].duration>>]

\* runCrew, before the await: status running
runCrewRunning(cs, id, t) ==
    [i \in DOMAIN cs |->
        IF cs[i].id = id
        THEN [cs[i] EXCEPT !.status = "running", !.updatedAt = t]
        ELSE cs[i]]

\* variant that appends a completed crew when the list holds none with id
runCrewCompleted_Upserts(cs, id, result, duration, t) ==
    IF \E i \in DOMAIN cs : cs[i].id = id
    THEN [i \in DOMAIN cs |->
            IF cs[i].id = id
            THEN [cs[i] EXCEPT !.status = "completed", !.result = result,
                               !.completedAt = t, !.duration = duration,
                               !.updatedAt = t]
            ELSE cs[i]]
    ELSE Append(cs, [Crew(EmptyCrew, id, t) EXCEPT
                        !.status = "completed", !.result = result,
                        !.completedAt = t, !.duration = duration])

\* runCrew, after the await: status completed with the response's result
runCrewCompleted(cs, id, result, duration, t) ==
    [i \in DOMAIN cs |->
        IF cs[i].id = id
        THEN [cs[i] EXCEPT !.status = "completed", !.result = result,
                           !.completedAt = t, !.duration = duration,
                           !.updatedAt = t]
        ELSE cs[i]]

\* variant of the catch branch that stores the error as the crew's result
runCrewFailed_StoresResult(cs, id, t) ==
    [i \in DOMAIN cs |->
        IF cs[i].id = id
        THEN [cs[i] EXCEPT !.status = "failed", !.result = "error",
                           !.updatedAt = t]
        ELSE cs[i]]

\* runCrew, catch branch: status failed
runCrewFailed(cs, id, t) ==
    [i \in DOMAIN cs |->
        IF cs[i].id = id
        THEN [cs[i] EXCEPT !.status = "failed", !.updatedAt = t]
        ELSE cs[i]]

(***************************************************************************)
(* The asynchronous actions of agentStore, up to and after their await     *)
(***************************************************************************)
\* createCrew up to `await apiClient.crew.create`
createCrewStart(crewData) ==
    /\ createsIssued < MaxCrewCreates
    /\ agentIsLoading' = TRUE
    /\ agentError' = NoError
    /\ createsIssued' = createsIssued + 1
    /\ LET crew == Crew(crewData, LocalIds[createsIssued + 1], now)
       IN  crewCreates' = crewCreates \cup
              {[n |-> createsIssued + 1, crew |-> crew,
                request |-> apiCrewData(crew, agents)]}
    /\ UNCHANGED <<crews, availableTemplates, crewRuns, runsIssued, fetches,
                   now, escaped>>
    /\ UNCHANGED notAgent

\* createCrew after the await, success: crew.id = apiCrewId, append
createCrewResolved(call) ==
    /\ call \in crewCreates
    /\ \E apiCrewId \in BackendIds :
          crews' = createCrewSucceeded(crews, call.crew, apiCrewId)
    /\ crewCreates' = crewCreates \ {call}
    /\ agentIsLoading' = FALSE
    /\ UNCHANGED <<agentError, availableTemplates, createsIssued, crewRuns,
                   runsIssued, fetches, now, escaped>>
    /\ UNCHANGED outsideAgent

CreateResolve(call) ==
    /\ createCrewResolved(call)
    /\ UNCHANGED managerVars

\* createCrew after the await, failure: set error, rethrow
CreateReject(call) ==
    /\ call \in crewCreates
    /\ crews' = createCrewFailed(crews, call.crew)
    /\ agentError' = "Failed to create crew"
    /\ agentIsLoading' = FALSE
    /\ crewCreates' = crewCreates \ {call}
    /\ escaped' = escaped \cup {"createCrew"}
    /\ UNCHANGED <<availableTemplates, createsIssued, crewRuns,
                   runsIssued, fetches, now>>
    /\ UNCHANGED notAgent

\* runCrew up to `await apiClient.crew.run`
runCrewStart(id) ==
    /\ runsIssued < MaxCrewRuns
    /\ agentIsLoading' = TRUE
    /\ agentError' = NoError
    /\ crews' = runCrewRunning(crews, id, now)
    /\ runsIssued' = runsIssued + 1
    /\ crewRuns' = crewRuns \cup {[n |-> runsIssued + 1, id |-> id,
                                    before |-> CrewOutcomes(crews)]}
    /\ UNCHANGED <<availableTemplates, crewCreates, createsIssued, fetches,
                   now, escaped>>
    /\ UNCHANGED notAgent

\* runCrew after the await, success
RunResolve(call) ==
    /\ call \in crewRuns
    /\ crews' = runCrewCompleted(crews, call.id, RunResult(call.n),
                                 RunDuration(call.n), now)
    /\ agentIsLoading' = FALSE
    /\ crewRuns' = crewRuns \ {call}
    /\ UNCHANGED <<agentError, availableTemplates, crewCreates, createsIssued,
                   runsIssued, fetches, now, escaped>>
    /\ UNCHANGED notAgent

\* runCrew after the await, failure
RunReject(call) ==
    /\ call \in crewRuns
    /\ crews' = runCrewFailed(crews, call.id, now)
    /\ agentError' = "Failed to run crew"
    /\ agentIsLoading' = FALSE
    /\ crewRuns' = crewRuns \ {call}
    /\ UNCHANGED <<availableTemplates, crewCreates, createsIssued, runsIssued,
                   fetches, now, escaped>>
    /\ UNCHANGED notAgent

\* fetchTemplates up to `await apiClient.crew.getTemplates`
fetchTemplatesStart ==
    /\ fetches < MaxFetches
    /\ agentIsLoading' = TRUE
    /\ agentError' = NoError
    /\ fetches' = fetches + 1
    /\ UNCHANGED <<crews, availableTemplates, crewCreates, createsIssued,
                   crewRuns, runsIssued, now, escaped>>
    /\ UNCHANGED notAgent

FetchResolve ==
    /\ fetches > 0
    /\ fetches' = fetches - 1
    /\ availableTemplates' = TemplatesResponse
    /\ agentIsLoading' = FALSE
    /\ UNCHANGED <<crews, agentError, crewCreates, createsIssued, crewRuns,
                   runsIssued, now, escaped>>
    /\ UNCHANGED notAgent

FetchReject ==
    /\ fetches > 0
    /\ fetches' = fetches - 1
    /\ agentError' = "Failed to fetch agent templates"
    /\ agentIsLoading' = FALSE
    /\ UNCHANGED <<crews, availableTemplates, crewCreates, createsIssued,
                   crewRuns, runsIssued, now, escaped>>
    /\ UNCHANGED notAgent

AgentTick ==
    /\ now < MaxClock
    /\ now' = now + 1
    /\ UNCHANGED agentVars
    /\ UNCHANGED notAgent

CrewSettle ==
    \/ \E call \in crewCreates : CreateResolve(call)
    \/ \E call \in crewCreates : CreateReject(call)
    \/ \E call \in crewRuns : RunResolve(call)
    \/ \E call \in crewRuns : RunReject(call)

FetchSettle ==
    \/ FetchResolve
    \/ FetchReject

(***************************************************************************)
(* UI-driven agent store: the controls of AgentManager                     *)
(***************************************************************************)
\* AgentManager mounts: useEffect calls fetchTemplates()
MountAgentManager == fetchTemplatesStart

\* "Create Crew" button, disabled while isLoading
handleCreateCrew ==
    /\ ~agentIsLoading
    /\ \E crewData \in Drafts : createCrewStart(crewData)

\* run button of a listed crew, disabled while running or isLoading
handleRunCrew ==
    /\ ~agentIsLoading
    /\ \E i \in DOMAIN crews :
          /\ crews[i].status # "running"
          /\ runCrewStart(crews[i].id)

AgentNext ==
    \/ AgentTick
    \/ MountAgentManager
    \/ handleCreateCrew
    \/ handleRunCrew
    \/ CrewSettle
    \/ FetchSettle

SpecAgent == Init /\ [][AgentNext]_vars

(***************************************************************************)
(* UI-driven agent store: the agent cards and the "Create New Crew" form   *)
(* of AgentManager (of an agent the model keeps id and template, of the    *)
(* form the name, the selected agents and the tasks)                       *)
(***************************************************************************)
\* createAgent: append { ...agentData, id }
createAgent(as, id, template) ==
    Append(as, [id |-> id, template |-> template])

\* variant that drops the agent and every agent listed after it
deleteAgent_Truncates(as, id) ==
    SubSeq(as, 1, findIndex([i \in DOMAIN as |-> as[i].id], id))

\* deleteAgent: filter
deleteAgent(as, id) ==
    SelectSeqBy(as, {as[i].id : i \in DOMAIN as} \ {id})

\* "Create Agent" button of the agent form
handleCreateAgent ==
    /\ agentsIssued < MaxAgents
    /\ \E template \in AgentTemplates :
          agents' = createAgent(agents, AgentIds[agentsIssued + 1], template)
    /\ agentsIssued' = agentsIssued + 1
    /\ UNCHANGED <<newCrew, showNewCrewForm>>
    /\ UNCHANGED <<agentVars, now, outsideAgent>>

\* trash button of an agent card
DeleteAgentClick ==
    /\ \E i \in DOMAIN agents : agents' = deleteAgent(agents, agents[i].id)
    /\ UNCHANGED <<agentsIssued, newCrew, showNewCrewForm>>
    /\ UNCHANGED <<agentVars, now, outsideAgent>>

\* "New Crew" / "Cancel" button, disabled while there is no agent
ToggleNewCrewForm ==
    /\ Len(agents) > 0
    /\ showNewCrewForm' = ~showNewCrewForm
    /\ UNCHANGED <<agents, agentsIssued, newCrew>>
    /\ UNCHANGED <<agentVars, now, outsideAgent>>

\* the form is rendered when showNewCrewForm && agents.length > 0
FormShown == showNewCrewForm /\ Len(agents) > 0

\* name input of the form
SetCrewName ==
    /\ FormShown
    /\ newCrew.name # "crew"
    /\ newCrew' = [newCrew EXCEPT !.name = "crew"]
    /\ UNCHANGED <<agents, agentsIssued, showNewCrewForm>>
    /\ UNCHANGED <<agentVars, now, outsideAgent>>

\* checkbox of a listed agent: checking appends its id to newCrew.agents,
\* unchecking filters it out; the tasks are not touched
ToggleCrewAgent ==
    /\ FormShown
    /\ \E i \in DOMAIN agents :
          LET id == agents[i].id
              checked == \E k \in DOMAIN newCrew.agents : newCrew.agents[k] = id
          IN  newCrew' =
                 [newCrew EXCEPT !.agents =
                     IF checked
                     THEN SelectSeq(newCrew.agents, LAMBDA a : a # id)
                     ELSE Append(newCrew.agents, id)]
    /\ UNCHANGED <<agents, agentsIssued, showNewCrewForm>>
    /\ UNCHANGED <<agentVars, now, outsideAgent>>

\* "Add Task" button: the new task is assigned to the first selected agent
handleAddTask ==
    /\ FormShown
    /\ Len(newCrew.agents) # 0
    /\ Len(newCrew.tasks) < MaxTasks
    /\ newCrew' =
          [newCrew EXCEPT !.tasks =
              Append(newCrew.tasks,
                     [description |-> "", agentId |-> newCrew.agents[1],
                      expectedOutput |-> "Comprehensive analysis"])]
    /\ UNCHANGED <<agents, agentsIssued, showNewCrewForm>>
    /\ UNCHANGED <<agentVars, now, outsideAgent>>

\* description field and "Assign to Agent" select of a task; the select
\* offers the agents selected for the crew
handleUpdateTask ==
    /\ FormShown
    /\ \E index \in DOMAIN newCrew.tasks :
          \/ /\ newCrew.tasks[index].description # "task"
             /\ newCrew' = [newCrew EXCEPT !.tasks[index].description = "task"]
          \/ \E k \in DOMAIN newCrew.agents :
                /\ newCrew.tasks[index].agentId # newCrew.agents[k]
                /\ newCrew' = [newCrew EXCEPT
                                  !.tasks[index].agentId = newCrew.agents[k]]
    /\ UNCHANGED <<agents, agentsIssued, showNewCrewForm>>
    /\ UNCHANGED <<agentVars, now, outsideAgent>>

\* trash button of a task
handleRemoveTask ==
    /\ FormShown
    /\ \E index \in DOMAIN newCrew.tasks :
          newCrew' =
             [newCrew EXCEPT !.tasks =
                 [i \in 1..(Len(newCrew.tasks) - 1) |->
                     IF i < index THEN newCrew.tasks[i]
                     ELSE newCrew.tasks[i + 1]]]
    /\ UNCHANGED <<agents, agentsIssued, showNewCrewForm>>
    /\ UNCHANGED <<agentVars, now, outsideAgent>>

\* "Create Crew" button of the form, up to `await createCrew(...)`
handleCreateCrewForm ==
    /\ FormShown
    /\ ~agentIsLoading
    /\ newCrew.name # ""
    /\ Len(newCrew.agents) > 0
    /\ Len(newCrew.tasks) > 0
    /\ createCrewStart(newCrew)

\* handleCreateCrew after `await createCrew(...)`: the form is reset and
\* hidden
handleCreateCrewDone ==
    \E call \in crewCreates :
       /\ createCrewResolved(call)
       /\ newCrew' = EmptyCrew
       /\ showNewCrewForm' = FALSE
       /\ UNCHANGED <<agents, agentsIssued>>

\* handleCreateCrew when createCrew rethrows: the form stays as it is
handleCreateCrewFailed ==
    \E call \in crewCreates : CreateReject(call)

CrewFormNext ==
    \/ handleCreateAgent
    \/ DeleteAgentClick
    \/ ToggleNewCrewForm
    \/ SetCrewName
    \/ ToggleCrewAgent
    \/ handleAddTask
    \/ handleUpdateTask
    \/ handleRemoveTask
    \/ handleCreateCrewForm
    \/ handleCreateCrewDone
    \/ handleCreateCrewFailed

SpecCrewForm == Init /\ [][CrewFormNext]_vars

\* the agent cards next to the crews the store lists
AgentCardsNext ==
    \/ handleCreateAgent
    \/ DeleteAgentClick
    \/ handleCreateCrew
    \/ handleRunCrew
    \/ CrewSettle

SpecAgentCards == Init /\ [][AgentCardsNext]_vars

(***************************************************************************)
(* Direct calls of the agent store's actions (any client of useAgentStore) *)
(***************************************************************************)
createCrewCall == \E crewData \in Drafts : createCrewStart(crewData)

runCrewCall == \E id \in BackendIds : runCrewStart(id)

updateCrewCall ==
    /\ \E id \in BackendIds, updates \in CrewUpdates :
          crews' = updateCrew(crews, id, updates, now)
    /\ UNCHANGED <<agentIsLoading, agentError, availableTemplates,
                   crewCreates, createsIssued, crewRuns, runsIssued, fetches,
                   now, escaped>>
    /\ UNCHANGED notAgent

deleteCrewCall ==
    /\ \E id \in BackendIds : crews' = deleteCrew(crews, id)
    /\ UNCHANGED <<agentIsLoading, agentError, availableTemplates,
                   crewCreates, createsIssued, crewRuns, runsIssued, fetches,
                   now, escaped>>
    /\ UNCHANGED notAgent

AgentStoreNext ==
    \/ AgentTick
    \/ createCrewCall
    \/ runCrewCall
    \/ updateCrewCall
    \/ deleteCrewCall
    \/ CrewSettle

SpecAgentStore == Init /\ [][AgentStoreNext]_vars

\* crews created and run from AgentManager and deleted by a client of the
\* store while their run is in flight
CrewDeleteNext ==
    \/ handleCreateCrew
    \/ handleRunCrew
    \/ deleteCrewCall
    \/ CrewSettle

SpecCrewDelete == Init /\ [][CrewDeleteNext]_vars

(***************************************************************************)
(* lib/socket: WebSocketClient and the socket.io connection it opens with  *)
(* reconnection enabled. channel is "opening" from io(...) until the first *)
(* open, "connected" while open, "reconnecting" after an unexpected        *)
(* disconnect, and "unreachable" / "failed" once the manager has given up  *)
(* before / after the connection was ever open.                            *)
(***************************************************************************)
\* variant that calls only the first registered listener
notifyConnectionHandlers_FirstOnly(t, handlers, connected) ==
    [l \in DOMAIN t |->
        IF handlers # <<>> /\ handlers[1] = l THEN connected ELSE t[l]]

\* notifyConnectionHandlers: every registered listener is called
notifyConnectionHandlers(t, handlers, connected) ==
    [l \in DOMAIN t |->
        IF \E k \in DOMAIN handlers : handlers[k] = l THEN connected ELSE t[l]]

\* the forEach of notifyConnectionHandlers: one invocation per array entry
invocations(handlers) ==
    [l \in Listeners |->
        Cardinality({k \in DOMAIN handlers : handlers[k] = l})]

\* handleMessage: every registered handler is called with the response,
\* whatever message id the response carries
handleMessage(d, handlers, messageId) ==
    [h \in DOMAIN d |-> IF h \in handlers THEN d[h] + 1 ELSE d[h]]

\* variant without the `if (this.socket) return` of line 53
connect_Unguarded ==
    channel' = "opening" /\ attempts' = 0 /\ sockets' = sockets + 1

\* connect(): nothing when a socket exists, else io(...) starts opening
connect ==
    IF channel = "none"
    THEN channel' = "opening" /\ attempts' = 0 /\ sockets' = sockets + 1
    ELSE UNCHANGED <<channel, attempts, sockets>>

connectCall ==
    /\ connectCalls < MaxConnects
    /\ connectCalls' = connectCalls + 1
    /\ connect
    /\ UNCHANGED <<disconnectCalls, messageHandlers, deliveries, sendBuffer,
                   sent, connectionHandlers, told, notified>>
    /\ UNCHANGED outsideSocket

\* disconnect(): nothing without a socket; else socket.disconnect(), which
\* fires 'disconnect' when the socket was connected, and socket = null
disconnectCall ==
    /\ disconnectCalls < MaxConnects
    /\ disconnectCalls' = disconnectCalls + 1
    /\ IF channel = "none"
       THEN UNCHANGED <<channel, attempts, sockets, sendBuffer, told,
                        notified>>
       ELSE /\ channel' = "none"
            /\ sockets' = sockets - 1
            /\ attempts' = 0
            /\ sendBuffer' = {}
            /\ IF channel = "connected"
               THEN /\ told' = notifyConnectionHandlers(told, connectionHandlers,
                                                        ToldFalse)
                    /\ notified' = invocations(connectionHandlers)
               ELSE UNCHANGED <<told, notified>>
    /\ UNCHANGED <<connectCalls, messageHandlers, deliveries, sent,
                   connectionHandlers>>
    /\ UNCHANGED outsideSocket

\* sendMessage(request, onResponse): connect() when there is no socket,
\* register onResponse under a fresh message id, emit (socket.io buffers
\* the packet while the socket is not connected)
sendMessageCall ==
    /\ Len(deliveries) < MaxSends
    /\ connect
    /\ LET messageId == Len(deliveries) + 1
       IN  /\ messageHandlers' = messageHandlers \cup {messageId}
           /\ deliveries' = Append(deliveries, 0)
           /\ IF channel = "connected"
              THEN sent' = sent \cup {messageId} /\ UNCHANGED sendBuffer
              ELSE sendBuffer' = sendBuffer \cup {messageId} /\ UNCHANGED sent
    /\ UNCHANGED <<connectCalls, disconnectCalls, connectionHandlers, told,
                   notified>>
    /\ UNCHANGED outsideSocket

\* the handler is an entry of connectionHandlers
Registered(handler) ==
    \E k \in DOMAIN connectionHandlers : connectionHandlers[k] = handler

\* onConnectionChange(handler): push, whether or not the array holds it
onConnectionChange(handler) ==
    /\ Len(connectionHandlers) < MaxRegistered
    /\ connectionHandlers' = Append(connectionHandlers, handler)
    /\ told' = IF Registered(handler) THEN told
               ELSE [told EXCEPT ![handler] = Never]
    /\ UNCHANGED <<channel, attempts, connectCalls, disconnectCalls, sockets,
                   messageHandlers, deliveries, sendBuffer, sent, notified>>
    /\ UNCHANGED outsideSocket

\* the function onConnectionChange returned: filter the handler out
Unsubscribe ==
    /\ \E k \in DOMAIN connectionHandlers :
          connectionHandlers' =
             SelectSeq(connectionHandlers,
                       LAMBDA l : l # connectionHandlers[k])
    /\ UNCHANGED <<channel, attempts, connectCalls, disconnectCalls, sockets,
                   messageHandlers, deliveries, sendBuffer, sent, told,
                   notified>>
    /\ UNCHANGED outsideSocket

\* the connection opens: 'connect' fires, buffered packets are transmitted
OpenSucceeds ==
    /\ channel \in {"opening", "reconnecting"}
    /\ channel' = "connected"
    /\ attempts' = 0
    /\ told' = notifyConnectionHandlers(told, connectionHandlers, ToldTrue)
    /\ notified' = invocations(connectionHandlers)
    /\ sent' = sent \cup sendBuffer
    /\ sendBuffer' = {}
    /\ UNCHANGED <<connectCalls, disconnectCalls, sockets, messageHandlers,
                   deliveries, connectionHandlers>>
    /\ UNCHANGED outsideSocket

\* an attempt to open fails: the manager starts the next reconnection
\* attempt, or gives up when reconnectionAttempts of them have failed
OpenFails ==
    /\ channel \in {"opening", "reconnecting"}
    /\ IF attempts < ReconnectionAttempts
       THEN attempts' = attempts + 1 /\ UNCHANGED channel
       ELSE /\ channel' = IF channel = "reconnecting" THEN "failed"
                          ELSE "unreachable"
            /\ UNCHANGED attempts
    /\ UNCHANGED <<connectCalls, disconnectCalls, sockets, messageHandlers,
                   deliveries, sendBuffer, sent, connectionHandlers, told,
                   notified>>
    /\ UNCHANGED outsideSocket

\* the open connection is lost: 'disconnect' fires and the manager starts
\* its first reconnection attempt
Drop ==
    /\ channel = "connected"
    /\ channel' = "reconnecting"
    /\ attempts' = 1
    /\ told' = notifyConnectionHandlers(told, connectionHandlers, ToldFalse)
    /\ notified' = invocations(connectionHandlers)
    /\ UNCHANGED <<connectCalls, disconnectCalls, sockets, messageHandlers,
                   deliveries, sendBuffer, sent, connectionHandlers>>
    /\ UNCHANGED outsideSocket

\* a 'message' event arrives; it echoes the message id of a transmitted
\* request or carries none (NULL)
Push(messageId) ==
    /\ channel = "connected"
    /\ messageId \in sent \cup {NULL}
    /\ \A h \in messageHandlers : deliveries[h] < MaxPushes
    /\ deliveries' = handleMessage(deliveries, messageHandlers, messageId)
    /\ UNCHANGED <<channel, attempts, connectCalls, disconnectCalls, sockets,
                   messageHandlers, sendBuffer, sent, connectionHandlers,
                   told, notified>>
    /\ UNCHANGED outsideSocket

\* the connection and its listeners
ConnectionNext ==
    \/ connectCall
    \/ disconnectCall
    \/ \E handler \in Listeners : onConnectionChange(handler)
    \/ Unsubscribe
    \/ OpenSucceeds
    \/ OpenFails
    \/ Drop

SpecConnection == Init /\ [][ConnectionNext]_vars

SocketNext ==
    \/ ConnectionNext
    \/ sendMessageCall
    \/ \E messageId \in sent \cup {NULL} : Push(messageId)

SpecSocket == Init /\ [][SocketNext]_vars

Next ==
    \/ ChatNext \/ StoreNext \/ SelectionNext \/ HistoryNext \/ LoadsNext
    \/ AgentNext \/ AgentStoreNext \/ CrewFormNext \/ AgentCardsNext
    \/ CrewDeleteNext
    \/ SocketNext
Spec == Init /\ [][Next]_vars

(***************************************************************************)
(* Properties of the send-turn protocol (SpecChat)                         *)
(***************************************************************************)
\* positions <<i, j>> of the message with identifier id
Positions(convs, id) ==
    UNION {{<<i, j>> : j \in {x \in DOMAIN convs[i].messages :
                                  convs[i].messages[x].id = id}} :
             i \in DOMAIN convs}

MessageAt(convs, p) == convs[p[1]].messages[p[2]]

Settled(k) == turns[k].state \in {"resolved", "rejected"}

\* C1: with several send-turns in flight on one conversation, a request that
\* resolves while that conversation is active writes its own response text
\* into its own placeholder, at the placeholder's position and under its
\* identifier; a placeholder never holds the text of another request, and
\* keeps its response text once written.
C1Step ==
  conversations' # conversations =>
    /\ \A k \in DOMAIN turns :
          ( /\ turns[k].state = "pending"
            /\ turns'[k].state = "resolved"
            /\ activeConversationId = turns[k].conversation_id )
          => \A p \in Positions(conversations, turns[k].assistantMessageId) :
                /\ p \in Positions(conversations', turns[k].assistantMessageId)
                /\ MessageAt(conversations', p).content = ResponseText(k)
                /\ MessageAt(conversations', p).role = "assistant"
    /\ \A k \in DOMAIN turns' :
          \A p \in Positions(conversations', turns'[k].assistantMessageId) :
             MessageAt(conversations', p).content
                \in {Sentinel, ResponseText(k), FailureNotice}
    /\ \A k \in DOMAIN turns :
          \A p \in Positions(conversations, turns[k].assistantMessageId) :
             MessageAt(conversations, p).content = ResponseText(k)
             => \A q \in Positions(conversations', turns[k].assistantMessageId) :
                   MessageAt(conversations', q).content = ResponseText(k)

C1Theorem == [][C1Step]_vars

\* two placeholders in one conversation, the later request resolved first
C1Witness ==
    /\ Len(turns) = 2
    /\ turns[1].state = "pending"
    /\ turns[2].state = "resolved"
    /\ \E i \in DOMAIN conversations :
          /\ Len(conversations[i].messages) = 4
          /\ conversations[i].messages[2].id = turns[1].assistantMessageId
          /\ conversations[i].messages[2].content = Sentinel
          /\ conversations[i].messages[4].id = turns[2].assistantMessageId
          /\ conversations[i].messages[4].content = ResponseText(2)

\* C2: once a send-turn's request has settled, its placeholder, if it is
\* still in the conversation it was appended to, no longer holds the sentinel.
C2Claim ==
    \A k \in DOMAIN turns :
       Settled(k) =>
          \A p \in Positions(conversations, turns[k].assistantMessageId) :
             conversations[p[1]].id = turns[k].conversation_id
             => MessageAt(conversations, p).content # Sentinel

\* C3: after a failed request the placeholder of that send-turn holds the
\* failure notice under its identifier and role, the user message is in
\* place, and no other message holds the notice.
C3Claim ==
    /\ \A k \in DOMAIN turns :
          turns[k].state = "rejected" =>
             /\ \A p \in Positions(conversations, turns[k].assistantMessageId) :
                   /\ MessageAt(conversations, p).content = FailureNotice
                   /\ MessageAt(conversations, p).role = "assistant"
             /\ \A p \in Positions(conversations, turns[k].userMessageId) :
                   /\ MessageAt(conversations, p).role = "user"
                   /\ MessageAt(conversations, p).content \in Prompts
    /\ \A i \in DOMAIN conversations :
          \A j \in DOMAIN conversations[i].messages :
             conversations[i].messages[j].content = FailureNotice
             => \E k \in DOMAIN turns :
                   /\ turns[k].state = "rejected"
                   /\ turns[k].assistantMessageId = conversations[i].messages[j].id

\* C4: a placeholder that received the response text of its request also
\* carries the response's provenance (model, provider, tokens, cost).
C4Claim ==
    \A k \in DOMAIN turns :
       turns[k].state = "resolved" =>
          \A p \in Positions(conversations, turns[k].assistantMessageId) :
             MessageAt(conversations, p).content = ResponseText(k)
             => MessageAt(conversations, p).provenance = ResponseProvenance(k)

(***************************************************************************)
(* Properties of the chat store's actions (SpecStore)                      *)
(***************************************************************************)
IndexOf(msgs, id) == CHOOSE j \in DOMAIN msgs : msgs[j].id = id

\* C5: in every step, the messages a conversation keeps stay in the same
\* relative order with the same identifier and role, and a message that is
\* added comes after all messages already there (call order).
C5Step ==
    \A i \in DOMAIN conversations, i2 \in DOMAIN conversations' :
       ( /\ conversations[i].id = conversations'[i2].id
         /\ conversations[i].messages # conversations'[i2].messages ) =>
          LET old == conversations[i].messages
              new == conversations'[i2].messages
          IN /\ \A a, b \in DOMAIN new :
                   (a < b /\ new[b].id \in MsgIds(old)) =>
                      /\ new[a].id \in MsgIds(old)
                      /\ IndexOf(old, new[a].id) < IndexOf(old, new[b].id)
             /\ \A a \in DOMAIN new, o \in DOMAIN old :
                   new[a].id = old[o].id => new[a].role = old[o].role
             /\ Cardinality(MsgIds(new)) = Len(new)

C5Theorem == [][C5Step]_vars

\* two messages of different roles added in turn, the first one updated
\* afterwards
C5Witness ==
    \E i \in DOMAIN conversations :
       /\ Len(conversations[i].messages) = 2
       /\ conversations[i].messages[1].content \in CallContents
       /\ conversations[i].messages[1].id < conversations[i].messages[2].id
       /\ conversations[i].messages[1].role # conversations[i].messages[2].role

\* C6: updateMessage(id, c1) then updateMessage(id, c2) on a message of the
\* active conversation leaves one message with that identifier, with content
\* c2, at the same position, and the same number of messages.
C6Theorem ==
    \A i \in DOMAIN conversations :
       conversations[i].id = activeConversationId =>
          \A j \in DOMAIN conversations[i].messages :
             \A c1 \in EditContents, c2 \in EditContents :
                LET msgs == conversations[i].messages
                    id == msgs[j].id
                    once == updateMessage(conversations, activeConversationId,
                                          id, c1, now)
                    twice == updateMessage(once, activeConversationId,
                                           id, c2, now)
                    m == twice[i].messages
                IN /\ Len(m) = Len(msgs)
                   /\ m[j].id = id
                   /\ m[j].content = c2
                   /\ Cardinality({x \in DOMAIN m : m[x].id = id}) = 1
                   /\ \A x \in DOMAIN m : x # j => m[x] = msgs[x]

\* a message of the active conversation, not the last one, has been updated
C6Witness ==
    \E i \in DOMAIN conversations :
       /\ conversations[i].id = activeConversationId
       /\ Len(conversations[i].messages) >= 2
       /\ conversations[i].messages[1].content \in CallContents
       /\ conversations[i].messages[2].content \notin CallContents

\* C7: deleteConversation(id) of the active conversation makes one of the
\* remaining conversations active, or null when none remains; of another
\* conversation it leaves activeConversationId as it is.
C7Theorem ==
    \A id \in (1..MaxUuid) \cup {StaleId} :
       LET r == deleteConversation(conversations, activeConversationId, id)
       IN /\ id \notin ConvIds(r.conversations)
          /\ id = activeConversationId =>
                IF Len(r.conversations) > 0
                THEN r.activeConversationId \in ConvIds(r.conversations)
                ELSE r.activeConversationId = NULL
          /\ id # activeConversationId =>
                r.activeConversationId = activeConversationId

\* the active conversation heads a list of three, so that deleting it
\* leaves two to choose from
C7Witness ==
    /\ Len(conversations) = 3
    /\ activeConversationId = conversations[1].id
    /\ deleteConversation(conversations, activeConversationId,
                          activeConversationId).activeConversationId
          = conversations[2].id

\* C8 as stated: the conversation selected after deleting the active one has
\* the greatest updatedAt among the remaining ones.
C8Claim ==
    \A i \in DOMAIN conversations :
       conversations[i].id = activeConversationId =>
          LET r == deleteConversation(conversations, activeConversationId,
                                      activeConversationId)
          IN \A x, y \in DOMAIN r.conversations :
                r.conversations[x].id = r.activeConversationId
                => r.conversations[x].updatedAt >= r.conversations[y].updatedAt

\* C8 amended: the conversation selected is the first of the remaining ones
\* in list order, which is the most recently created of them.
C8Theorem ==
    \A i \in DOMAIN conversations :
       conversations[i].id = activeConversationId =>
          LET r == deleteConversation(conversations, activeConversationId,
                                      activeConversationId)
          IN Len(r.conversations) > 0 =>
                /\ r.activeConversationId = r.conversations[1].id
                /\ \A y \in DOMAIN r.conversations :
                      r.conversations[1].createdAt >= r.conversations[y].createdAt

\* an older remaining conversation was updated after the newer one, and
\* the newer one is selected
C8Witness ==
    /\ Len(conversations) = 3
    /\ activeConversationId = conversations[1].id
    /\ conversations[3].updatedAt > conversations[2].updatedAt
    /\ conversations[2].createdAt >= conversations[3].createdAt
    /\ deleteConversation(conversations, activeConversationId,
                          activeConversationId).activeConversationId
          = conversations[2].id

(***************************************************************************)
(* Properties of the crew lifecycle (SpecAgent, SpecAgentStore)            *)
(***************************************************************************)
AllowedStatusChanges ==
    {<<"idle", "running">>, <<"running", "completed">>,
     <<"running", "failed">>, <<"completed", "running">>,
     <<"failed", "running">>}

\* C9: every change of a crew's status is idle->running, running->completed,
\* running->failed, completed->running or failed->running.
C9Step ==
    Len(crews') >= Len(crews) =>
       \A i \in DOMAIN crews :
          crews'[i].status # crews[i].status
          => <<crews[i].status, crews'[i].status>> \in AllowedStatusChanges

C9Claim == [][C9Step]_vars

HasResult(c) == c.result # Undefined
HasCompletedAt(c) == c.completedAt # UndefinedNumber
HasDuration(c) == c.duration # UndefinedNumber

\* C10 as stated: result, completedAt or duration populated only with a
\* terminal status, none of them populated while idle or running.
C10Claim ==
    \A i \in DOMAIN crews :
       /\ (HasResult(crews[i]) \/ HasCompletedAt(crews[i]) \/ HasDuration(crews[i]))
             => crews[i].status \in {"completed", "failed"}
       /\ crews[i].status \in {"idle", "running"}
             => ~(HasResult(crews[i]) \/ HasCompletedAt(crews[i])
                    \/ HasDuration(crews[i]))

C10State ==
    \A i \in DOMAIN crews :
       /\ HasResult(crews[i]) = HasCompletedAt(crews[i])
       /\ HasResult(crews[i]) = HasDuration(crews[i])
       /\ crews[i].status = "idle" => ~HasResult(crews[i])
       /\ crews[i].status = "completed" => HasResult(crews[i])

C10Step ==
    \A i \in DOMAIN crews :
       ( \/ crews'[i].result # crews[i].result
         \/ crews'[i].completedAt # crews[i].completedAt
         \/ crews'[i].duration # crews[i].duration )
       => /\ crews'[i].status = "completed"
          /\ HasResult(crews'[i])
          /\ HasCompletedAt(crews'[i])
          /\ HasDuration(crews'[i])

\* C10 amended: with crews changed by createCrew and runCrew only, the three
\* fields are populated together or not at all, an idle crew has none and a
\* completed crew has all of them, and they only change in a state update
\* that sets status to completed; a running or failed crew may carry the
\* three of an earlier completed run.
C10Theorem == [](C10State) /\ [][C10Step]_vars

\* a completed crew that is run again keeps its result while running
C10Witness ==
    \E i \in DOMAIN crews :
       /\ crews[i].status = "running"
       /\ HasResult(crews[i])
       /\ HasCompletedAt(crews[i])
       /\ HasDuration(crews[i])

\* C11: when the backend call of runCrew(id) fails, the crews with that id
\* get status failed and the store's error is set, their result, completedAt
\* and duration are the ones they had when the run was invoked, and every
\* other crew is unchanged.
C11Step ==
    \A call \in crewRuns :
       RunReject(call) =>
          /\ agentError' = "Failed to run crew"
          /\ \A i \in DOMAIN crews :
                IF crews[i].id = call.id
                THEN /\ crews'[i].status = "failed"
                     /\ i \in DOMAIN call.before
                           => CrewOutcomes(crews')[i] = call.before[i]
                ELSE crews'[i] = crews[i]

C11Claim == [][C11Step]_vars

\* C12: after createCrew succeeds with backend identifier B the crew list
\* holds exactly one entry with id B, that entry is idle and has the draft's
\* name, agents, tasks and process type, and no entry carries a locally
\* generated identifier; for all sequences of createCrew calls, overlapping
\* ones and repeated backend identifiers included.
C12Step ==
    \A call \in crewCreates, B \in BackendIds :
       (CreateResolve(call) /\ crews' = createCrewSucceeded(crews, call.crew, B))
       => LET entries == {i \in DOMAIN crews' : crews'[i].id = B}
          IN  /\ Cardinality(entries) = 1
              /\ \A i \in entries :
                    /\ crews'[i].status = "idle"
                    /\ crews'[i].name = call.crew.name
                    /\ crews'[i].agents = call.crew.agents
                    /\ crews'[i].tasks = call.crew.tasks
                    /\ crews'[i].processType = call.crew.processType
              /\ \A i \in DOMAIN crews', k \in DOMAIN LocalIds :
                    crews'[i].id # LocalIds[k]

C12Claim == [][C12Step]_vars

\* no listed crew carries a locally generated identifier
NoLocalIdListed ==
    \A i \in DOMAIN crews, k \in DOMAIN LocalIds : crews[i].id # LocalIds[k]

C13Step ==
    /\ \A call \in crewCreates :
          CreateReject(call) =>
             /\ crews' = crews
             /\ \A i \in DOMAIN crews' : crews'[i].id # call.crew.id
             /\ agentError' = "Failed to create crew"
             /\ agentIsLoading' = FALSE
    /\ \A crewData \in Drafts :
          createCrewStart(crewData) => crews' = crews

\* C13: when the backend call of createCrew fails, the call leaves the crew
\* list as it was (neither its first part nor its catch branch adds, removes
\* or changes an entry, and no entry exists for the draft under its local
\* identifier), the store's error is set and isLoading is false.
C13Theorem == [](NoLocalIdListed) /\ [][C13Step]_vars

\* one createCrew call has succeeded and a later one has failed
C13Witness ==
    /\ createsIssued = 2
    /\ crewCreates = {}
    /\ Len(crews) = 1
    /\ agentError = "Failed to create crew"
    /\ ~agentIsLoading

(***************************************************************************)
(* Properties of the crew form and the create request (SpecCrewForm)       *)
(***************************************************************************)
\* C14: in every createCrew request submitted to the backend each task's
\* agent_index is the position of the task's agent in the crew's agent list,
\* hence within 0..(number of agents - 1); no request carries an index out
\* of that range.
C14Claim ==
    \A call \in crewCreates :
       \A t \in DOMAIN call.request.tasks :
          LET index == call.request.tasks[t].agent_index
          IN  /\ index \in 0..(Len(call.crew.agents) - 1)
              /\ call.crew.agents[index + 1] = call.crew.tasks[t].agentId

(***************************************************************************)
(* Properties of loadConversationHistory (SpecHistory)                     *)
(***************************************************************************)
\* the messages of the listed conversations with identifier id
MessagesOf(convs, id) ==
    {convs[i].messages : i \in {x \in DOMAIN convs : convs[x].id = id}}

\* C15: a successful loadConversationHistory of a history of n turns sets
\* the conversation's messages to exactly 2n messages, user(i) followed by
\* assistant(i) for i = 1..n with the turns' texts in order, and every
\* assistant timestamp is its user message's timestamp plus 1, with or
\* without a timestamp in the turn's metadata.
C15Step ==
    \A call \in loads, history \in Histories :
       (Convertible(history) /\ LoadResolve(call, history))
       => \A msgs \in MessagesOf(conversations', call.conversationId) :
             /\ Len(msgs) = 2 * Len(history)
             /\ \A i \in DOMAIN history :
                   /\ msgs[2 * i - 1].role = "user"
                   /\ msgs[2 * i - 1].content = history[i].user
                   /\ msgs[2 * i].role = "assistant"
                   /\ msgs[2 * i].content = history[i].assistant
                   /\ msgs[2 * i].timestamp = msgs[2 * i - 1].timestamp + 1

C15Claim == [][C15Step]_vars

\* the load of call fails in this step: the request is rejected, or the
\* response cannot be converted
LoadFails(call) ==
    \/ LoadReject(call)
    \/ \E history \in Histories :
          ~Convertible(history) /\ LoadResolve(call, history)

C16Step ==
    loads' # loads =>
       /\ \A call \in loads :
             LoadFails(call) =>
                /\ Len(conversations') = Len(conversations)
                /\ \A i \in DOMAIN conversations :
                      conversations'[i].messages = conversations[i].messages
                /\ storeError' = "Failed to load conversation history"
                /\ storeIsLoading' = FALSE
       /\ \A conversationId \in CallConvIds :
             loadConversationHistoryStart(conversationId)
             => conversations' = conversations

\* C16: when loadConversationHistory fails, because the request is rejected
\* or because the response cannot be converted, the call leaves the messages
\* of every conversation as they were (none of the loaded turns is applied),
\* the store's error is set and isLoading is false.
C16Theorem == [][C16Step]_vars

\* a load has failed and a conversation that holds messages still has them
C16Witness ==
    /\ storeError = "Failed to load conversation history"
    /\ ~storeIsLoading
    /\ loads = {}
    /\ \E i \in DOMAIN conversations : Len(conversations[i].messages) > 0

(***************************************************************************)
(* Properties of the push-channel client (SpecSocket)                      *)
(***************************************************************************)
\* the handlers a step invokes
Invoked ==
    {h \in DOMAIN deliveries : deliveries'[h] > deliveries[h]}

\* C17: a push message whose message id is that of a pending request
\* invokes exactly the handler registered under that id and no other
\* pending handler (all handlers are invoked only for a message without a
\* matching id).
C17Step ==
    \A messageId \in messageHandlers :
       Push(messageId) => Invoked = {messageId}

C17Claim == [][C17Step]_vars

\* C18: a handler registered by sendMessage leaves the pending map once a
\* response has been delivered to it: it is invoked at most once and the map
\* holds no handler that has received its response.
C18Claim ==
    \A h \in DOMAIN deliveries :
       /\ deliveries[h] <= 1
       /\ deliveries[h] = 1 => h \notin messageHandlers

C19State ==
    /\ attempts <= ReconnectionAttempts
    /\ channel = "failed" =>
          /\ attempts = ReconnectionAttempts
          /\ \A k \in DOMAIN connectionHandlers :
                told[connectionHandlers[k]] # ToldTrue

C19Step ==
    /\ Drop =>
          \A k \in DOMAIN connectionHandlers :
             told'[connectionHandlers[k]] = ToldFalse
    /\ channel = "failed" =>
          /\ channel' \in {"failed", "none"}
          /\ channel' = "failed" => attempts' = attempts

\* C19: after an unexpected disconnect at most 5 automatic reconnection
\* attempts are started; the disconnect calls every registered listener with
\* false; once the 5 attempts have failed the connection stays failed with
\* no further attempt until the client drops it, and no registered listener
\* has last been told true.
C19Theorem == [](C19State) /\ [][C19Step]_vars

\* reconnection is exhausted and a listener has been told false
C19Witness ==
    /\ channel = "failed"
    /\ attempts = ReconnectionAttempts
    /\ \E k \in DOMAIN connectionHandlers :
          told[connectionHandlers[k]] = ToldFalse

\* C20: once automatic reconnection is exhausted, a call of connect()
\* starts a new connection attempt, without disconnect() before it.
C20Step ==
    (connectCalls' = connectCalls + 1 /\ channel \in {"failed", "unreachable"})
    => channel' = "opening"

C20Claim == [][C20Step]_vars

\* the step changes whether the push channel is connected
ConnectionChange ==
    (channel = "connected") # (channel' = "connected")

C21Step ==
    ConnectionChange =>
       \A l \in Listeners :
          IF Registered(l)
          THEN /\ notified'[l] = 1
               /\ told'[l] = IF channel' = "connected" THEN ToldTrue
                             ELSE ToldFalse
          ELSE notified'[l] = 0 /\ told'[l] = told[l]

\* C21: on every change of the connection state, the explicit disconnect()
\* included, every listener registered at that moment is invoked exactly
\* once, with true for connected and false for disconnected, and a listener
\* that is not registered is not invoked.
C21Claim == [][C21Step]_vars

\* C22: a network failure in createCrew, runCrew, fetchTemplates or
\* loadConversationHistory ends in the store's error field and never reaches
\* the caller: no store action rejects the promise it returned.
C22Claim == escaped = {}

\* C23: in every reachable state of the chat store each message identifier
\* occurs in at most one conversation and at most once in its sequence,
\* also after history loads of several conversations that resolve at the
\* same clock value.
C23Claim ==
    \A i, j \in DOMAIN conversations :
       \A p \in DOMAIN conversations[i].messages,
          q \in DOMAIN conversations[j].messages :
          conversations[i].messages[p].id = conversations[j].messages[q].id
          => i = j /\ p = q

\* C26: the chat store's loading flag is true in every state in which a
\* loadConversationHistory call is in flight, also when several loads
\* overlap and one settles before the others, and false when none is.
C26Claim == storeIsLoading = (loads # {})

\* the list without its i-th element
Without(list, i) ==
    [k \in 1..(Len(list) - 1) |-> IF k < i THEN list[k] ELSE list[k + 1]]

C24Step ==
    DeleteAgentClick =>
       /\ \E i \in DOMAIN agents : agents' = Without(agents, i)
       /\ crews' = crews

\* C24: deleteAgent(id) removes the agent with that id and no other from the
\* agent list and leaves every crew as it was (member agents, tasks and
\* their agentId, status, result), also a crew that references the agent.
C24Theorem == [][C24Step]_vars

\* an agent that a listed crew still references has been deleted while
\* another agent stays listed
C24Witness ==
    /\ agentsIssued = 2
    /\ Len(agents) = 1
    /\ agents[1].id = AgentIds[2]
    /\ \E i \in DOMAIN crews :
          \E k \in DOMAIN crews[i].agents : crews[i].agents[k] = AgentIds[1]

\* the ids of the messages of the active conversation
ActiveMsgIds ==
    UNION {MsgIds(conversations[i].messages) :
             i \in {x \in DOMAIN conversations :
                       conversations[x].id = activeConversationId}}

C25Step ==
    \A id \in CallMsgIds \ ActiveMsgIds, content \in CallContents :
       conversations' = updateMessage(conversations, activeConversationId,
                                      id, content, now)
       => conversations' = conversations

\* C25: updateMessage(id, content) for an id that no message of the active
\* conversation has is a no-op: no message appears and no field of any
\* conversation, update timestamps included, changes.
C25Claim == [][C25Step]_vars

C27State ==
    /\ sockets <= 1
    /\ (channel = "none") = (sockets = 0)

C27Step ==
    /\ (connectCalls' = connectCalls + 1 /\ channel # "none")
       => UNCHANGED <<channel, attempts, sockets>>
    /\ disconnectCalls' = disconnectCalls + 1
       => /\ channel' = "none" /\ sockets' = 0
          /\ channel = "none" =>
                UNCHANGED <<attempts, sendBuffer, sent, messageHandlers,
                            connectionHandlers, told, notified>>

\* C27: for every sequence of connect() and disconnect() calls at most one
\* underlying connection exists at any time; connect() while a connection
\* object exists creates no second one; disconnect() leaves no connection
\* and, called when there is none, changes nothing, so that two calls have
\* the effect of one.
C27Theorem == [](C27State) /\ [][C27Step]_vars

\* one connect() and two disconnect() calls have been made, so that one
\* disconnect() found no connection, and none is left
C27Witness ==
    /\ connectCalls = 1
    /\ disconnectCalls = 2
    /\ channel = "none"

C28Step ==
    \A call \in crewRuns :
       (RunResolve(call) \/ RunReject(call)) =>
          /\ Len(crews') = Len(crews)
          /\ \A i \in DOMAIN crews :
                /\ crews'[i].id = crews[i].id
                /\ crews[i].id # call.id => crews'[i] = crews[i]

\* C28: the resolution of a runCrew(id) call, success or failure, inserts no
\* crew: after deleteCrew(id) was called while the run was in flight the
\* list holds no entry with that id before the resolution and none after
\* it, and the crews with other ids are unchanged.
C28Theorem == [][C28Step]_vars

\* the one crew that was created has been run and deleted, and its run has
\* settled
C28Witness ==
    /\ createsIssued = 1 /\ crewCreates = {}
    /\ runsIssued = 1 /\ crewRuns = {}
    /\ crews = <<>>

\* C29: in the agent store isLoading is false only when no createCrew,
\* runCrew or fetchTemplates call is in flight, also after the first of two
\* overlapping calls has settled.
C29Claim ==
    ~agentIsLoading => crewCreates = {} /\ crewRuns = {} /\ fetches = 0

\* C30: for every sequence of createConversation, deleteConversation,
\* clearConversations, addMessage, updateMessage, deleteMessage and
\* setActiveConversation of listed conversations, activeConversationId is
\* null or the id of a listed conversation.
C30Theorem ==
    \/ activeConversationId = NULL
    \/ activeConversationId \in ConvIds(conversations)

\* three conversations were created and one of them deleted, and the active
\* one is the oldest of the two that remain
C30Witness ==
    /\ nextUuid = 4
    /\ Len(conversations) = 2
    /\ \A i \in DOMAIN conversations : conversations[i].messages = <<>>
    /\ activeConversationId = conversations[2].id

====
